---- MODULE Spec2Model ----
(***************************************************************************)
(* Model of the back-testing engine of HackathonTrading:                   *)
(*   src/src/backtesting/run_backtest.py  (run_backtest, the replay loop)  *)
(*   src/src/utils/trader.py              (Trader, the portfolio ledger)   *)
(*                                                                         *)
(* Amounts are exact fixed-point numbers: one whole unit of an asset is    *)
(* FeeDen model units, a fee rate is fee/FeeDen (fee is in basis points),  *)
(* and an order quantity is a whole number of units, so qty*price*(1 +/-   *)
(* fee) is always an integer number of model units.  Floating-point        *)
(* rounding is not modelled.                                               *)
(***************************************************************************)
EXTENDS Integers, Sequences, FiniteSets, TLC

\* ---------------------------------------------------------------- bounds
\* Rows of the input tick table.
MaxRows == 2
\* Distinct timestamps a row can carry (1..MaxT).
MaxT == 2
\* Close prices are 1..MaxClose.
MaxClose == 2
\* Orders one on_data call returns.
MaxOrders == 1
\* Order quantities are -1..MaxQty whole units.
MaxQty == 1

\* ------------------------------------------------------------ constants
\* FEE = HYPERPARAMETERS.get("fee", 3.0) / 10000.0 and fee_bps / 10_000.0:
\* fees are given in basis points.  Also the model units per whole unit.
FeeDen == 10000

\* ------------------------------------------------------------- universe
\* An optional value: None is the empty sequence, a present value x is <<x>>.
None == <<>>
Some(x) == <<x>>
Val(o) == o[1]

\* An empty dict.
EmptyDict == [k \in {} |-> 0]
NoErr == "none"

Assets == {"fiat", "token_1", "token_2"}

\* The three pairs Trader.__init__ creates entries for.
TraderPairs == {"token_1/fiat", "token_2/fiat", "token_1/token_2"}

\* A pair symbol the Trader has no entry for.
OtherPair == "token_3/fiat"

Symbols == TraderPairs \cup {OtherPair}

\* base, quote = pair.split("/")
Base(pair) ==
    CASE pair = "token_1/fiat" -> "token_1"
      [] pair = "token_2/fiat" -> "token_2"
      [] pair = "token_1/token_2" -> "token_1"
      [] OTHER -> "token_3"

Quote(pair) ==
    CASE pair = "token_1/token_2" -> "token_2"
      [] OTHER -> "fiat"

Timestamps == 1..MaxT
Closes == 1..MaxClose

\* A row of combined_data; only the columns the engine reads.
Ticks == [timestamp : Timestamps, symbol : Symbols, close : Closes]

SeqsUpTo(S, n) == UNION {[1..k -> S] : k \in 0..n}

Tables == SeqsUpTo(Ticks, MaxRows)

\* Fee rates handed to run_backtest, in basis points (numerators over FeeDen).
Fees == {0, 1}

\* Initial balances handed to run_backtest (model units), with the three
\* keys the entry point passes.
InitBalances ==
    { [a \in Assets |-> IF a = "fiat" THEN 2 * (FeeDen + 1) ELSE 0],
      [a \in Assets |-> FeeDen],
      [a \in Assets |-> IF a = "token_2" THEN 2 * (FeeDen + 1) ELSE 0] }

\* Initial balances that leave an asset out: only fiat, or fiat and token_2.
SparseBalances ==
    { [a \in {"fiat"} |-> 2 * (FeeDen + 1)],
      [a \in {"fiat", "token_2"} |-> 2 * (FeeDen + 1)] }

Sides == {"buy", "sell", "hold"}
Qtys == (-1)..MaxQty

\* What a strategy may put in the list on_data returns.
Orders == [pair : Symbols, side : Sides, qty : Qtys]
OrderSeqs == SeqsUpTo(Orders, MaxOrders)

VARIABLES
    data,            \* combined_data, the caller's frame (sorted in place)
    fee,             \* fee (numerator over FeeDen)
    balances,        \* the one balances dict: caller's, Trader.balances, on_data's
    initial_balances,\* run_backtest's balances.copy()
    prices,          \* Trader.prices
    first_prices,    \* Trader.first_prices
    first_update,    \* Trader.first_update
    equity_history,  \* Trader.equity_history when it is a list
    equity_is_list,  \* FALSE while Trader.equity_history is the float 0.0
    turnover,        \* Trader.turnover
    trade_count,     \* Trader.trade_count
    total_fees_paid, \* Trader.total_fees_paid
    result,          \* the ledger run_backtest builds
    market_data,     \* the snapshot of the current timestamp
    timestamp,       \* the loop variable of the groupby loop
    ri,              \* index in data of the next row to replay
    orders,          \* orders of the current on_data result not yet executed
    pc,              \* position in run_backtest
    err,             \* the exception that ended the run, if any
    commits,         \* history: execute calls that changed balances
    all_empty,       \* history: every on_data call so far returned no order
    price_hist,      \* history: Trader.prices at each equity sample of update_market
    last_exec,       \* history: the last execute call, with the fields it found
    last_commit,     \* history: the last execute call with executed = True
    prev_commit,     \* history: the one before it
    log,             \* history: the calls run_backtest has made, in order
    score,           \* what calculate_score did with the run's ledger
    returned         \* history: every order on_data returned, with the
                     \* timestamp of the call

vars == <<data, fee, balances, initial_balances, prices, first_prices,
          first_update, equity_history, equity_is_list, turnover, trade_count,
          total_fees_paid, result, market_data, timestamp, ri, orders, pc, err,
          commits, all_empty, price_hist, last_exec, last_commit, prev_commit,
          log, score, returned>>

histVars == <<commits, price_hist, last_exec, last_commit, prev_commit>>

traderVars == <<balances, prices, first_prices, first_update, equity_history,
                equity_is_list, turnover, trade_count, total_fees_paid>>


\* --------------------------------------------------------------- Trader
\* Trader.__init__: the three dicts keyed by the three pairs.
InitPrices == [p \in TraderPairs |-> None]
InitFirstUpdate == [p \in TraderPairs |-> FALSE]

\* d[k] = v on a dict: the key is created when absent.
DictSet(d, k, v) == [x \in (DOMAIN d) \cup {k} |-> IF x = k THEN v ELSE d[x]]

HasKey(d, k) == k \in DOMAIN d

\* The result of a call: err = NoErr when it returned normally.
KeyError == "KeyError"
AttributeError == "AttributeError"

\* A slip: the holdings of token_1 are left out of the valuation.
CalculatePortfolioValueFiatOnly(bal, prc) ==
    IF ~HasKey(bal, "fiat") THEN [err |-> "KeyError", num |-> 0, den |-> 1]
    ELSE [err |-> "none", num |-> bal["fiat"], den |-> 1]

\* A slip: the triangular branch multiplies by the token_1/token_2 price
\* where it should divide.
CalculatePortfolioValueTimes(bal, prc) ==
    LET p1 == prc["token_1/fiat"]
        p2 == prc["token_2/fiat"]
        p12 == prc["token_1/token_2"]
        Fail == [err |-> KeyError, num |-> 0, den |-> 1]
        Ok(n, d) == [err |-> NoErr, num |-> n, den |-> d]
    IN  IF ~HasKey(bal, "fiat") THEN Fail
        ELSE IF p1 # None /\ ~HasKey(bal, "token_1") THEN Fail
        ELSE LET v1 == bal["fiat"]
                         + (IF p1 # None THEN bal["token_1"] * Val(p1) ELSE 0)
             IN  IF p2 # None
                 THEN IF ~HasKey(bal, "token_2") THEN Fail
                      ELSE Ok(v1 + bal["token_2"] * Val(p2), 1)
                 ELSE IF p1 # None /\ p12 # None
                 THEN IF ~HasKey(bal, "token_2") THEN Fail
                      ELSE Ok(v1 + bal["token_2"] * Val(p12) * Val(p1), 1)
                 ELSE Ok(v1, 1)

\* Trader.calculate_portfolio_value: the value in fiat as the exact fraction
\* num/den (den is the token_1/token_2 price when the triangular branch
\* divides by it, else 1), or the KeyError a missing balances key raises.
CalculatePortfolioValue(bal, prc) ==
    LET p1 == prc["token_1/fiat"]
        p2 == prc["token_2/fiat"]
        p12 == prc["token_1/token_2"]
        Fail == [err |-> KeyError, num |-> 0, den |-> 1]
        Ok(n, d) == [err |-> NoErr, num |-> n, den |-> d]
    IN  IF ~HasKey(bal, "fiat") THEN Fail
        ELSE IF p1 # None /\ ~HasKey(bal, "token_1") THEN Fail
        ELSE LET v1 == bal["fiat"]
                         + (IF p1 # None THEN bal["token_1"] * Val(p1) ELSE 0)
             IN  IF p2 # None
                 THEN IF ~HasKey(bal, "token_2") THEN Fail
                      ELSE Ok(v1 + bal["token_2"] * Val(p2), 1)
                 ELSE IF p1 # None /\ p12 # None
                 THEN IF ~HasKey(bal, "token_2") THEN Fail
                      ELSE Ok(v1 * Val(p12) + bal["token_2"] * Val(p1), Val(p12))
                 ELSE Ok(v1, 1)

\* qty = float(order["qty"]), in model units.
OrderQty(order) == order.qty * FeeDen

\* base_cost = qty * price  (also base_proceeds of a sell)
BaseCost(qty, price) == qty * price

\* fee_amount = base_cost * self.fee
FeeAmount(base_cost, f) == (base_cost * f) \div FeeDen

\* A slip: the fee is left out of the cost of a buy.
TotalCostNoFee(base_cost, fee_amount) == base_cost

\* total_cost = base_cost + fee_amount
TotalCost(base_cost, fee_amount) == base_cost + fee_amount

\* A slip: the fee is added to the proceeds of a sell.
NetProceedsFeeAdded(base_proceeds, fee_amount) == base_proceeds + fee_amount

\* net_proceeds = base_proceeds - fee_amount
NetProceeds(base_proceeds, fee_amount) == base_proceeds - fee_amount

\* A slip: the funding check of a buy only asks for a non-negative balance.
BuyFundedAnyBalance(bal, quote, total_cost) == bal[quote] >= 0

\* if self.balances[quote] >= total_cost
BuyFunded(bal, quote, total_cost) == bal[quote] >= total_cost

\* if self.balances[base] >= qty
SellFunded(bal, base, qty) == bal[base] >= qty

\* self.balances[k] += d
Credit(bal, k, d) == [bal EXCEPT ![k] = @ + d]

\* The Trader fields execute reads and writes.
TraderState(bal, tov, fees, tc) ==
    [balances |-> bal, turnover |-> tov, total_fees_paid |-> fees,
     trade_count |-> tc]

\* A slip: an order that is not committed raises instead of being skipped.
ReturnedRaisingOnDrop(st, executed) ==
    [st |-> st, err |-> IF executed THEN NoErr ELSE "ValueError", executed |-> executed]

\* execute returned normally, having committed the order or not.
Returned(st, executed) == [st |-> st, err |-> NoErr, executed |-> executed]
Raised(st, e) == [st |-> st, err |-> e, executed |-> FALSE]

\* The buy branch of Trader.execute.
ExecuteBuy(st, base, quote, qty, price, f) ==
    LET base_cost == BaseCost(qty, price)
        fee_amount == FeeAmount(base_cost, f)
        total_cost == TotalCost(base_cost, fee_amount)
    IN  IF ~HasKey(st.balances, quote) THEN Raised(st, KeyError)
        ELSE IF ~BuyFunded(st.balances, quote, total_cost) THEN Returned(st, FALSE)
        ELSE LET debited == Credit(st.balances, quote, -total_cost)
             IN  IF ~HasKey(debited, base)
                 THEN Raised([st EXCEPT !.balances = debited], KeyError)
                 ELSE Returned(
                        TraderState(Credit(debited, base, qty),
                                    st.turnover + total_cost,
                                    st.total_fees_paid + fee_amount,
                                    st.trade_count + 1),
                        TRUE)

\* The sell branch of Trader.execute.
ExecuteSell(st, base, quote, qty, price, f) ==
    LET base_proceeds == BaseCost(qty, price)
        fee_amount == FeeAmount(base_proceeds, f)
        net_proceeds == NetProceeds(base_proceeds, fee_amount)
    IN  IF ~HasKey(st.balances, base) THEN Raised(st, KeyError)
        ELSE IF ~SellFunded(st.balances, base, qty) THEN Returned(st, FALSE)
        ELSE IF ~HasKey(st.balances, quote) THEN Raised(st, KeyError)
        ELSE Returned(
               TraderState(Credit(Credit(st.balances, quote, net_proceeds), base, -qty),
                           st.turnover + base_proceeds,
                           st.total_fees_paid + fee_amount,
                           st.trade_count + 1),
               TRUE)

\* Trader.execute(order) on the Trader fields st with last prices prc.
TraderExecute(st, prc, f, order) ==
    LET pair == order.pair
        qty == OrderQty(order)
    IN  IF ~HasKey(prc, pair) THEN Raised(st, KeyError)
        ELSE IF prc[pair] = None THEN Returned(st, FALSE)
        ELSE IF order.side = "buy"
             THEN ExecuteBuy(st, Base(pair), Quote(pair), qty, Val(prc[pair]), f)
        ELSE IF order.side = "sell"
             THEN ExecuteSell(st, Base(pair), Quote(pair), qty, Val(prc[pair]), f)
        ELSE Returned(st, FALSE)

\* ---------------------------------------------------------- run_backtest
\* combined_data.sort_values("timestamp", inplace=True): the rows in ascending
\* timestamp order.  The default sort is not stable, so rows of one timestamp
\* may come out in any order.
SortValues(t) ==
    LET n == Len(t)
        Sorted(g) == /\ \A i, j \in 1..n : i # j => g[i] # g[j]
                     /\ \A i \in 1..(n - 1) : t[g[i]].timestamp <= t[g[i + 1]].timestamp
    IN  {[i \in 1..n |-> t[g[i]]] : g \in {h \in [1..n -> 1..n] : Sorted(h)}}

\* {k: df.iloc[0]['close'] for k, df in combined_data.groupby("symbol")}
FirstPricesOf(t) ==
    [s \in {t[i].symbol : i \in DOMAIN t} |->
        t[CHOOSE i \in DOMAIN t :
            /\ t[i].symbol = s
            /\ \A j \in 1..(i - 1) : t[j].symbol # s].close]

\* initial_portfolio_value of run_backtest, or the KeyError of a missing key.
InitialPortfolioValue(ib, fp) ==
    LET Fail == [err |-> KeyError, value |-> 0]
        Add(v, pair, asset) ==
            IF HasKey(fp, pair) /\ ib[asset] > 0 THEN v + ib[asset] * fp[pair] ELSE v
    IN  IF ~HasKey(ib, "fiat") THEN Fail
        ELSE IF HasKey(fp, "token_1/fiat") /\ ~HasKey(ib, "token_1") THEN Fail
        ELSE IF HasKey(fp, "token_2/fiat") /\ ~HasKey(ib, "token_2") THEN Fail
        ELSE [err |-> NoErr,
              value |-> Add(Add(ib["fiat"], "token_1/fiat", "token_1"),
                            "token_2/fiat", "token_2")]

\* A slip: the row is appended without the timestamp of the loop turn.
LedgerRowNoStamp(order, ts, id) ==
    [id |-> id, timestamp |-> 0, pair |-> order.pair, side |-> order.side,
     qty |-> order.qty]

\* The row appended to result: the order with its timestamp and a fresh id.
LedgerRow(order, ts, id) ==
    [id |-> id, timestamp |-> ts, pair |-> order.pair, side |-> order.side,
     qty |-> order.qty]

\* id = str(uuid.uuid4()): a token no earlier row carries.
FreshId(ledger) == Len(ledger) + 1

NoCommit ==
    [side |-> "none", pair |-> "none", qty |-> 0, price |-> 0,
     balances |-> EmptyDict, total_fees_paid |-> 0]

NoExec ==
    [called |-> FALSE, order |-> [pair |-> "none", side |-> "none", qty |-> 0],
     price |-> None, before |-> TraderState(EmptyDict, 0, 0, 0),
     executed |-> FALSE, err |-> NoErr]

\* calculate_score has not been called.
NoScore ==
    [called |-> FALSE, walked |-> FALSE, err |-> NoErr, equity_ts |-> <<>>,
     balances |-> EmptyDict, applied |-> <<>>, report |-> EmptyDict]

\* run_backtest is entered with a table, a fee and one of the balances B;
\* the Trader is constructed around that mapping.
InitWith(B) ==
    /\ data \in Tables
    /\ fee \in Fees
    /\ balances \in B
    /\ initial_balances = balances
    /\ prices = InitPrices
    /\ first_prices = InitPrices
    /\ first_update = InitFirstUpdate
    /\ equity_history = <<>>
    /\ equity_is_list = FALSE
    /\ turnover = 0
    /\ trade_count = 0
    /\ total_fees_paid = 0
    /\ result = <<>>
    /\ market_data = EmptyDict
    /\ timestamp = 0
    /\ ri = 1
    /\ orders = <<>>
    /\ pc = "start"
    /\ err = NoErr
    /\ commits = 0
    /\ all_empty = TRUE
    /\ price_hist = <<>>
    /\ last_exec = NoExec
    /\ last_commit = NoCommit
    /\ prev_commit = NoCommit
    /\ log = <<>>
    /\ score = NoScore
    /\ returned = <<>>

Init == InitWith(InitBalances)

\* market_data = {"fee": fee}: the snapshot before the ticks are added.
NewSnapshot(f) == [k \in {"fee"} |-> f]

\* The run ends with an exception.
Abort(e) ==
    /\ pc' = "aborted"
    /\ err' = e

\* An entry of the history of calls: op is "sort_values", "update_market",
\* "on_data" or "execute", ts the timestamp of the loop turn, n the row
\* replayed, the number of orders returned, or the number of orders left.
Call(op, ts, n) == [op |-> op, ts |-> ts, n |-> n]

\* groupby('timestamp'): the keys of the groups.
GroupKeys(t) == {t[i].timestamp : i \in DOMAIN t}

\* A slip: the iteration takes consecutive keys for granted and starts one
\* key too far.
NextKeyOffByOne(t, ts) ==
    LET later == {k \in GroupKeys(t) : k > ts + 1}
    IN  IF later = {} THEN 0 ELSE CHOOSE k \in later : \A m \in later : k <= m

\* groupby iterates its groups in ascending key order: the key after ts, or
\* 0 when ts was the last one (ts = 0 asks for the first key).
NextKey(t, ts) ==
    LET later == {k \in GroupKeys(t) : k > ts}
    IN  IF later = {} THEN 0 ELSE CHOOSE k \in later : \A m \in later : k <= m

\* A slip: only the first row of a group is replayed.
NextRowOfFirstOnly(t, ts, after) ==
    LET rest == {i \in DOMAIN t : after = 0 /\ t[i].timestamp = ts}
    IN  IF rest = {} THEN 0 ELSE CHOOSE i \in rest : \A j \in rest : i <= j

\* group.iterrows(): the index of the next row of group ts after index
\* `after`, in frame order, or 0 when the group has no more rows.
NextRowOf(t, ts, after) ==
    LET rest == {i \in DOMAIN t : i > after /\ t[i].timestamp = ts}
    IN  IF rest = {} THEN 0 ELSE CHOOSE i \in rest : \A j \in rest : i <= j

\* for timestamp, group in combined_data.groupby('timestamp'): the turn of
\* the group after key ts, or the end of the loop.
NextGroup(ts) ==
    LET key == NextKey(data, ts)
    IN  IF key = 0
        THEN /\ pc' = "done"
             /\ UNCHANGED <<timestamp, market_data, ri>>
        ELSE /\ pc' = "ticks"
             /\ timestamp' = key
             /\ ri' = NextRowOf(data, key, 0)
             /\ market_data' = NewSnapshot(fee)

\* run_backtest up to the loop: copy the balances, sort the frame in place,
\* value the initial portfolio, seed the equity list, create the ledger.
Start ==
    /\ pc = "start"
    /\ initial_balances' = balances
    /\ \E sorted \in SortValues(data) :
        /\ data' = sorted
        /\ LET ipv == InitialPortfolioValue(balances, FirstPricesOf(sorted))
           IN  IF ipv.err # NoErr
               THEN /\ Abort(ipv.err)
                    /\ UNCHANGED <<equity_history, equity_is_list, timestamp,
                                   market_data, ri>>
               ELSE /\ equity_history' = <<[num |-> ipv.value, den |-> 1]>>
                    /\ equity_is_list' = TRUE
                    /\ err' = NoErr
                    /\ LET key == NextKey(sorted, 0)
                       IN  IF key = 0
                           THEN /\ pc' = "done"
                                /\ UNCHANGED <<timestamp, market_data, ri>>
                           ELSE /\ pc' = "ticks"
                                /\ timestamp' = key
                                /\ ri' = NextRowOf(sorted, key, 0)
                                /\ market_data' = NewSnapshot(fee)
        /\ log' = <<Call("sort_values", 0, IF sorted = data THEN 0 ELSE 1)>>
    /\ result' = <<>>
    /\ UNCHANGED <<score, returned, fee, balances, prices, first_prices, first_update, turnover,
                   trade_count, total_fees_paid, orders, all_empty, histVars>>

\* One row of the current group: market_data[pair] = data_dict and
\* trader.update_market(pair, data_dict).
UpdateMarket ==
    /\ pc = "ticks"
    /\ LET row == data[ri]
           pair == row.symbol
           newPrices == DictSet(prices, pair, Some(row.close))
           pv == CalculatePortfolioValue(balances, newPrices)
           next == NextRowOf(data, timestamp, ri)
       IN  /\ market_data' = DictSet(market_data, pair, row)
           /\ prices' = newPrices
           /\ IF ~HasKey(first_update, pair)
              THEN /\ Abort(KeyError)
                   /\ UNCHANGED <<first_prices, first_update, equity_history, ri,
                                  price_hist, log>>
              ELSE /\ first_prices' =
                        IF first_update[pair] THEN first_prices
                        ELSE [first_prices EXCEPT ![pair] = Some(row.close)]
                   /\ first_update' = [first_update EXCEPT ![pair] = TRUE]
                   /\ IF pv.err # NoErr
                      THEN /\ Abort(pv.err)
                           /\ UNCHANGED <<equity_history, ri, price_hist, log>>
                      ELSE IF ~equity_is_list
                      THEN /\ Abort(AttributeError)
                           /\ UNCHANGED <<equity_history, ri, price_hist, log>>
                      ELSE /\ equity_history' =
                                Append(equity_history, [num |-> pv.num, den |-> pv.den])
                           /\ price_hist' = Append(price_hist, newPrices)
                           /\ log' = Append(log, Call("update_market", timestamp, ri))
                           /\ ri' = next
                           /\ pc' = IF next # 0 THEN "ticks" ELSE "strategy"
                           /\ err' = NoErr
    /\ UNCHANGED <<score, returned, data, fee, balances, initial_balances, equity_is_list,
                   turnover, trade_count, total_fees_paid, result, timestamp,
                   orders, commits, all_empty, last_exec, last_commit, prev_commit>>

\* The orders os, each with the timestamp ts of the call that returned it.
Stamped(os, ts) == [i \in DOMAIN os |-> [ts |-> ts, order |-> os[i]]]

\* orders = strategy.on_data(market_data, balances): one of the lists S.
OnDataFrom(S) ==
    /\ pc = "strategy"
    /\ \E os \in S :
        /\ orders' = os
        /\ all_empty' = (all_empty /\ os = <<>>)
        /\ log' = Append(log, Call("on_data", timestamp, Len(os)))
        /\ returned' = returned \o Stamped(os, timestamp)
        /\ IF os = <<>>
           THEN NextGroup(timestamp)
           ELSE /\ pc' = "orders"
                /\ UNCHANGED <<timestamp, market_data, ri>>
    /\ UNCHANGED <<score, data, fee, initial_balances, traderVars, result, err,
                   histVars>>

\* orders = strategy.on_data(market_data, balances): any list of orders.
OnData == OnDataFrom(OrderSeqs)

\* One turn of "for order in orders": trader.execute(order), then the order
\* is stamped and appended to result.
Execute ==
    /\ pc = "orders"
    /\ LET order == Head(orders)
           st == TraderState(balances, turnover, total_fees_paid, trade_count)
           r == TraderExecute(st, prices, fee, order)
       IN  /\ balances' = r.st.balances
           /\ turnover' = r.st.turnover
           /\ total_fees_paid' = r.st.total_fees_paid
           /\ trade_count' = r.st.trade_count
           /\ commits' = IF r.st.balances # balances THEN commits + 1 ELSE commits
           /\ last_exec' =
                [called |-> TRUE, order |-> order,
                 price |-> IF HasKey(prices, order.pair) THEN prices[order.pair] ELSE None,
                 before |-> st, executed |-> r.executed, err |-> r.err]
           /\ last_commit' =
                IF r.executed
                THEN [side |-> order.side, pair |-> order.pair, qty |-> order.qty,
                      price |-> Val(prices[order.pair]), balances |-> balances,
                      total_fees_paid |-> total_fees_paid]
                ELSE last_commit
           /\ prev_commit' = IF r.executed THEN last_commit ELSE prev_commit
           /\ IF r.err # NoErr
              THEN /\ Abort(r.err)
                   /\ UNCHANGED <<result, orders, timestamp, market_data, ri, log>>
              ELSE /\ result' = Append(result, LedgerRow(order, timestamp, FreshId(result)))
                   /\ orders' = Tail(orders)
                   /\ log' = Append(log, Call("execute", timestamp, Len(Tail(orders))))
                   /\ err' = NoErr
                   /\ IF Tail(orders) = <<>>
                      THEN NextGroup(timestamp)
                      ELSE /\ pc' = "orders"
                           /\ UNCHANGED <<timestamp, market_data, ri>>
    /\ UNCHANGED <<score, returned, data, fee, initial_balances, prices,
                   first_prices, first_update, equity_history, equity_is_list,
                   all_empty, price_hist>>

Next == Start \/ UpdateMarket \/ OnData \/ Execute

Spec == Init /\ [][Next]_vars

\* orders = strategy.on_data(market_data, balances) for a strategy that also
\* assigns to an entry of the balances argument it was handed: the argument
\* is the dict the Trader holds, which is the dict the caller passed.
OnDataWriting ==
    /\ pc = "strategy"
    /\ \E os \in OrderSeqs, a \in Assets, v \in {0, FeeDen} :
        /\ balances' = DictSet(balances, a, v)
        /\ orders' = os
        /\ all_empty' = (all_empty /\ os = <<>>)
        /\ log' = Append(log, Call("on_data", timestamp, Len(os)))
        /\ returned' = returned \o Stamped(os, timestamp)
        /\ IF os = <<>>
           THEN NextGroup(timestamp)
           ELSE /\ pc' = "orders"
                /\ UNCHANGED <<timestamp, market_data, ri>>
    /\ UNCHANGED <<score, data, fee, initial_balances, prices, first_prices,
                   first_update, equity_history, equity_is_list, turnover,
                   trade_count, total_fees_paid, result, err, histVars>>

\* A run over a table of at most one row, with such a strategy.
InitAlias == Init /\ Len(data) <= 1

NextAlias == Start \/ UpdateMarket \/ OnData \/ OnDataWriting \/ Execute

SpecAlias == InitAlias /\ [][NextAlias]_vars

\* A strategy that answers every call with two orders on token_1/fiat or
\* on token_2/fiat, over a table that only quotes token_1/fiat.
BurstOrders == [pair : {"token_1/fiat", "token_2/fiat"}, side : {"buy", "sell"},
                qty : {1}]
BurstSeqs == [1..2 -> BurstOrders]

OnDataBurst == OnDataFrom(BurstSeqs)

InitBurst ==
    /\ Init
    /\ \A i \in DOMAIN data : data[i].symbol = "token_1/fiat"
    /\ \A i, j \in DOMAIN data : data[i].timestamp = data[j].timestamp => i = j

NextBurst == Start \/ UpdateMarket \/ OnDataBurst \/ Execute

SpecBurst == InitBurst /\ [][NextBurst]_vars

\* The same run, entered with balances that leave an asset out.
InitSparse == InitWith(SparseBalances)

SpecSparse == InitSparse /\ [][Next]_vars

\* A caller that does not go through run_backtest: the Trader is used as
\* constructed and the rows of the table are handed to update_market.
Feed ==
    /\ pc = "start"
    /\ data # <<>>
    /\ pc' = "ticks"
    /\ ri' = 1
    /\ timestamp' = data[1].timestamp
    /\ market_data' = NewSnapshot(fee)
    /\ UNCHANGED <<score, returned, data, fee, balances, initial_balances, prices,
                   first_prices, first_update, equity_history, equity_is_list,
                   turnover, trade_count, total_fees_paid, result, orders, err,
                   all_empty, log, histVars>>

NextFresh == Feed \/ UpdateMarket

SpecFresh == Init /\ [][NextFresh]_vars

\* ------------------------------------------------------- calculate_score
ValueError == "ValueError"
IndexError == "IndexError"

Abs(x) == IF x < 0 THEN -x ELSE x

\* seconds_per_year = 365 * 24 * 3600; a timestamp of the model is a second.
SecondsPerYear == 365 * 24 * 3600

\* The index (timestamp, symbol) of price_lookup has no repeated entry.
UniqueTicks(t) ==
    \A i, j \in DOMAIN t :
        (t[i].timestamp = t[j].timestamp /\ t[i].symbol = t[j].symbol) => i = j

\* price_lookup: the close of the tick of pair at ts, None when there is none.
PriceLookup(t, ts, pair) ==
    LET rows == {i \in DOMAIN t : t[i].timestamp = ts /\ t[i].symbol = pair}
    IN  IF rows = {} THEN None ELSE Some(t[CHOOSE i \in rows : TRUE].close)

\* pair = f"{asset}/fiat"
FiatPair(asset) ==
    CASE asset = "token_1" -> "token_1/fiat"
      [] asset = "token_2" -> "token_2/fiat"
      [] OTHER -> OtherPair

\* sorted(price_data['timestamp'].unique()), as a sequence.
SortedUnique(t) ==
    LET keys == {t[i].timestamp : i \in DOMAIN t}
        Least(S) == CHOOSE k \in S : \A m \in S : k <= m
        seq[i \in 0..Cardinality(keys)] ==
            IF i = 0 THEN <<>>
            ELSE Append(seq[i - 1],
                        Least({k \in keys : \A j \in DOMAIN seq[i - 1] :
                                                k > seq[i - 1][j]}))
    IN  seq[Cardinality(keys)]

\* Equity of balances bal at ts: fiat, plus every other asset held at the
\* close of its asset/fiat tick at exactly ts, at 0.0 when there is none.
ScoreEquity(bal, t, ts) ==
    LET Term(a) ==
            IF a \in DOMAIN bal /\ PriceLookup(t, ts, FiatPair(a)) # None
            THEN bal[a] * Val(PriceLookup(t, ts, FiatPair(a)))
            ELSE 0
    IN  bal["fiat"] + Term("token_1") + Term("token_2") + Term("token_3")

\* One ledger row replayed at ts (lines 59-77) on acc, the balances, turnover
\* and fees so far; the KeyError of price_lookup.loc when the pair has no
\* tick at ts.
ReplayOrder(acc, order, t, ts, fee_bps) ==
    LET price == PriceLookup(t, ts, order.pair)
        asset == Base(order.pair)
        qty == order.qty * FeeDen
        notional == qty * Val(price)
        fee_amount == (notional * fee_bps) \div FeeDen
        held == IF HasKey(acc.balances, asset) THEN acc.balances[asset] ELSE 0
        moved == [acc EXCEPT !.turnover = @ + Abs(notional),
                             !.applied = Append(@, order.id)]
    IN  IF acc.err # NoErr THEN acc
        ELSE IF price = None THEN [acc EXCEPT !.err = KeyError]
        ELSE IF order.side = "buy"
        THEN [moved EXCEPT
                !.balances = DictSet(Credit(acc.balances, "fiat", -(notional + fee_amount)),
                                     asset, held + qty),
                !.fees_paid = @ + fee_amount]
        ELSE IF order.side = "sell"
        THEN [moved EXCEPT
                !.balances = DictSet(Credit(acc.balances, "fiat", notional - fee_amount),
                                     asset, held - qty),
                !.fees_paid = @ + fee_amount]
        ELSE moved

\* A slip: every trade stamped ts or earlier is taken for the group of ts.
TradesUpTo(trades, ts) ==
    LET UpTo(row) == row.timestamp <= ts
    IN  SelectSeq(trades, UpTo)

\* trades_by_time.get_group(t): the trades stamped exactly ts, or none when
\* ts is not in trades_by_time.groups.
TradesAt(trades, ts) ==
    LET At(row) == row.timestamp = ts
    IN  SelectSeq(trades, At)

\* One turn of the walk (lines 55-86): the trades stamped ts are replayed in
\* ledger order and the equity at ts is recorded (with, for the record, the
\* number of trades applied by then).
WalkStep(acc, trades, t, ts, fee_bps) ==
    LET group == TradesAt(trades, ts)
        done[i \in 0..Len(group)] ==
            IF i = 0 THEN acc ELSE ReplayOrder(done[i - 1], group[i], t, ts, fee_bps)
        after == done[Len(group)]
    IN  IF acc.err # NoErr \/ after.err # NoErr THEN after
        ELSE [after EXCEPT !.equity_ts =
                 Append(@, [timestamp |-> ts,
                            equity |-> ScoreEquity(after.balances, t, ts),
                            applied |-> Len(after.applied)])]

\* The whole walk over the price timestamps.
Walk(trades, t, ib, fee_bps) ==
    LET times == SortedUnique(t)
        start == [balances |-> ib, turnover |-> 0, fees_paid |-> 0, err |-> NoErr,
                  equity_ts |-> <<>>, applied |-> <<>>]
        w[i \in 0..Len(times)] ==
            IF i = 0 THEN start ELSE WalkStep(w[i - 1], trades, t, times[i], fee_bps)
    IN  w[Len(times)]

\* returns = equity.pct_change().dropna(): each change over the previous
\* value as the pair <<change, previous>>; the first entry and every 0/0
\* are NaN and dropped, x/0 is kept (it is infinite).
PctChange(eq) ==
    LET r[i \in 0..Len(eq)] ==
            IF i <= 1 THEN <<>>
            ELSE IF eq[i - 1] = 0 /\ eq[i] = 0 THEN r[i - 1]
            ELSE Append(r[i - 1], <<eq[i] - eq[i - 1], eq[i - 1]>>)
    IN  r[Len(eq)]

\* A slip: the check before annualizing is left out.
NotEnoughDataNever(total_seconds, returns) == FALSE

\* if years <= 0 or returns.empty
NotEnoughData(total_seconds, returns) == total_seconds <= 0 \/ returns = <<>>

\* a/b < c/d for a, c >= 0 and b, d > 0, by whole parts and remainders
\* (no product of two amounts is formed).
RECURSIVE PosFracLess(_, _, _, _)
PosFracLess(a, b, c, d) ==
    IF a \div b # c \div d THEN a \div b < c \div d
    ELSE IF c % d = 0 THEN FALSE
    ELSE IF a % b = 0 THEN TRUE
    ELSE PosFracLess(d, c % d, b, a % b)

\* x < y for ratios <<numerator, denominator>> that are not 0/0, as floats
\* order them: n/0 is infinite with the sign of n.
FracLess(x, y) ==
    LET Norm(z) == IF z[2] < 0 THEN <<-z[1], -z[2]>> ELSE z
        a == Norm(x)
        b == Norm(y)
    IN  IF a[2] = 0 THEN a[1] < 0 /\ ~(b[2] = 0 /\ b[1] < 0)
        ELSE IF b[2] = 0 THEN b[1] > 0
        ELSE IF a[1] < 0 /\ b[1] >= 0 THEN TRUE
        ELSE IF a[1] >= 0 /\ b[1] < 0 THEN FALSE
        ELSE IF a[1] >= 0 THEN PosFracLess(a[1], a[2], b[1], b[2])
        ELSE PosFracLess(-b[1], b[2], -a[1], a[2])

\* A slip: the greatest drawdown entry is taken, not the least.
MaxDrawdownGreatest(eq) ==
    LET Max(a, b) == IF a >= b THEN a ELSE b
        running_max[i \in 1..Len(eq)] ==
            IF i = 1 THEN eq[1] ELSE Max(running_max[i - 1], eq[i])
        dd == {<<eq[i] - running_max[i], running_max[i]>> : i \in 1..Len(eq)}
                \ {<<0, 0>>}
    IN  IF dd = {} THEN <<0, 0>>
        ELSE CHOOSE d \in dd : \A e \in dd : ~FracLess(d, e)

\* max_dd = ((equity - cummax) / cummax).min(): the least drawdown as a pair
\* <<equity - running maximum, running maximum>>, 0/0 entries skipped;
\* <<0, 0>> (NaN) when every entry is 0/0.
MaxDrawdown(eq) ==
    LET Max(a, b) == IF a >= b THEN a ELSE b
        running_max[i \in 1..Len(eq)] ==
            IF i = 1 THEN eq[1] ELSE Max(running_max[i - 1], eq[i])
        dd == {<<eq[i] - running_max[i], running_max[i]>> : i \in 1..Len(eq)}
                \ {<<0, 0>>}
    IN  IF dd = {} THEN <<0, 0>>
        ELSE CHOOSE d \in dd : \A e \in dd : ~FracLess(e, d)

\* The metrics of the report.
Metrics ==
    {"initial_equity", "final_equity", "abs_pnl", "pct_pnl", "annualized_return",
     "annualized_volatility", "sharpe", "max_drawdown", "turnover", "fees_paid",
     "score"}

\* The returned dict (lines 99-139).  Amounts are exact; a ratio is the pair
\* <<numerator, denominator>>; the metrics that take a power or a root are
\* given by the exact operands the code computes them from.
Report(init_eq, eq, returns, total_seconds, turnover_, fees_paid) ==
    LET final_eq == eq[Len(eq)]
        years == <<total_seconds, SecondsPerYear>>
        ann_return == [total_return |-> <<final_eq, eq[1]>>, years |-> years]
        ann_vol == [returns |-> returns, n_periods |-> Len(returns), years |-> years]
        sharpe == [annualized_return |-> ann_return, annualized_volatility |-> ann_vol]
        max_dd == MaxDrawdown(eq)
    IN  [m \in Metrics |->
           CASE m = "initial_equity" -> init_eq
             [] m = "final_equity" -> final_eq
             [] m = "abs_pnl" -> final_eq - init_eq
             [] m = "pct_pnl" -> <<(final_eq - init_eq) * 100, init_eq>>
             [] m = "annualized_return" -> ann_return
             [] m = "annualized_volatility" -> ann_vol
             [] m = "sharpe" -> sharpe
             [] m = "max_drawdown" -> max_dd
             [] m = "turnover" -> turnover_
             [] m = "fees_paid" -> fees_paid
             [] OTHER -> [sharpe |-> sharpe, max_drawdown |-> max_dd,
                          turnover |-> turnover_]]

\* calculate_score(trades, price_data, initial_balances, fee_bps): the error
\* raised or the report returned, with the equity curve it walked.
CalculateScore(trades, t, ib, fee_bps) ==
    LET Fail(e) == [called |-> TRUE, walked |-> FALSE, err |-> e,
                    equity_ts |-> <<>>, balances |-> EmptyDict,
                    applied |-> <<>>, report |-> EmptyDict]
    IN  IF t = <<>> THEN Fail(IndexError)
        ELSE IF ~HasKey(ib, "fiat") THEN Fail(KeyError)
        ELSE LET times == SortedUnique(t)
                 init_eq == ScoreEquity(ib, t, times[1])
                 w == Walk(trades, t, ib, fee_bps)
                 eq == [i \in DOMAIN w.equity_ts |-> w.equity_ts[i].equity]
                 returns == PctChange(eq)
                 total_seconds == times[Len(times)] - times[1]
             IN  IF w.err # NoErr THEN Fail(w.err)
                 ELSE IF NotEnoughData(total_seconds, returns)
                 THEN [called |-> TRUE, walked |-> TRUE, err |-> ValueError,
                       equity_ts |-> w.equity_ts, balances |-> w.balances,
                       applied |-> w.applied, report |-> EmptyDict]
                 ELSE [called |-> TRUE, walked |-> TRUE, err |-> NoErr,
                       equity_ts |-> w.equity_ts, balances |-> w.balances,
                       applied |-> w.applied,
                       report |-> Report(init_eq, eq, returns, total_seconds,
                                         w.turnover, w.fees_paid)]

\* The run's ledger is scored against the table it replayed, with the
\* balances and the fee (in basis points) the run was started with.
Score ==
    /\ pc = "done"
    /\ score' = CalculateScore(result, data, initial_balances, fee)
    /\ pc' = "scored"
    /\ UNCHANGED <<data, fee, balances, initial_balances, prices, first_prices,
                   first_update, equity_history, equity_is_list, turnover,
                   trade_count, total_fees_paid, result, market_data, timestamp,
                   ri, orders, err, commits, all_empty, price_hist, last_exec,
                   last_commit, prev_commit, log, returned>>

\* A backtest over a table with one tick per pair and timestamp, then scored.
InitPipeline == Init /\ UniqueTicks(data)

NextPipeline == Next \/ Score

SpecPipeline == InitPipeline /\ [][NextPipeline]_vars

\* Ledgers handed to calculate_score by a caller of its own: up to two rows,
\* stamped with a timestamp of the table or with one later than all of them.
LedgerRows ==
    [id : {0}, timestamp : 1..(MaxT + 1),
     pair : {"token_1/fiat", "token_1/token_2"}, side : {"buy", "sell"}, qty : {1}]

Ledgers ==
    {[i \in DOMAIN l |-> [l[i] EXCEPT !.id = i]] : l \in SeqsUpTo(LedgerRows, 2)}

\* calculate_score(trades, price_data, initial_balances, fee_bps) called on
\* such a ledger, without a backtest before it.
ScoreLedger ==
    /\ pc = "start"
    /\ \E trades \in Ledgers :
         /\ result' = trades
         /\ score' = CalculateScore(trades, data, initial_balances, fee)
    /\ pc' = "scored"
    /\ UNCHANGED <<data, fee, balances, initial_balances, prices, first_prices,
                   first_update, equity_history, equity_is_list, turnover,
                   trade_count, total_fees_paid, market_data, timestamp, ri,
                   orders, err, all_empty, log, returned, histVars>>

SpecScore == InitPipeline /\ [][ScoreLedger]_vars

\* ================================================================ claims
\* The step is one call of trader.execute on the order at the head of orders.
ExecStep == pc = "orders"
CurOrder == Head(orders)
Priced(pair) == HasKey(prices, pair) /\ prices[pair] # None
CurPrice == Val(prices[CurOrder.pair])
\* executed = True in this call
CommitStep == ExecStep /\ trade_count' = trade_count + 1
\* qty*price*(1+fee) and qty*price*(1-fee) in model units
CostOf(q, p) == q * p * (FeeDen + fee)
ProceedsOf(q, p) == q * p * (FeeDen - fee)

\* C1: the ledger has exactly one row per committed order: the number of
\* rows equals the number of execute calls that changed balances.
C1_LedgerRowsAreCommits == Len(result) = commits

\* C2: no overdraft: every entry of Trader.balances is >= 0 after any
\* sequence of update_market and execute calls.
C2_NoOverdraft == \A a \in DOMAIN balances : balances[a] >= 0

\* The last execute call found the debited side of its order under-funded
\* at the pair's last price.
Underfunded(x) ==
    /\ x.called
    /\ x.price # None
    /\ \/ /\ x.order.side = "buy"
          /\ x.before.balances[Quote(x.order.pair)] < CostOf(x.order.qty, Val(x.price))
       \/ /\ x.order.side = "sell"
          /\ x.before.balances[Base(x.order.pair)] < x.order.qty * FeeDen

\* The Trader fields are as the last execute call found them.
AsBefore(x) ==
    /\ balances = x.before.balances
    /\ turnover = x.before.turnover
    /\ total_fees_paid = x.before.total_fees_paid
    /\ trade_count = x.before.trade_count

\* C3: an order whose debited side is under-funded is not committed:
\* execute returns without error and balances, turnover, total_fees_paid
\* and trade_count are unchanged.
C3_UnderfundedNotCommitted ==
    Underfunded(last_exec) => (last_exec.err = NoErr /\ AsBefore(last_exec))

\* C3 witness: a positive buy was under-funded (with a positive quote
\* balance) at the pair's last price, and the run went on to its end.
C3_Witness ==
    /\ pc = "done"
    /\ Underfunded(last_exec)
    /\ last_exec.order.side = "buy"
    /\ last_exec.order.qty > 0
    /\ last_exec.before.balances[Quote(last_exec.order.pair)] > 0
    /\ Len(result) = 1

\* C4: a committed buy of qty at last price p takes qty*p*(1+fee) from the
\* quote balance and adds qty to the base balance, a committed sell adds
\* qty*p*(1-fee) to the quote balance and takes qty from the base balance,
\* no other balance changes; a priced buy commits exactly when the quote
\* balance is at least the cost (equality commits), a priced sell exactly
\* when the base balance is at least qty; nothing else commits.
C4_CommittedOrderEffect ==
    LET x == last_exec
        o == x.order
        b == x.before.balances
        q == o.qty * FeeDen
        base == Base(o.pair)
        quote == Quote(o.pair)
        committed == trade_count = x.before.trade_count + 1
    IN  x.called =>
          /\ committed => (x.price # None /\ o.side \in {"buy", "sell"})
          /\ (x.price # None /\ o.side = "buy") =>
               /\ committed <=> b[quote] >= CostOf(o.qty, Val(x.price))
               /\ committed =>
                    balances = [b EXCEPT ![quote] = @ - CostOf(o.qty, Val(x.price)),
                                         ![base] = @ + q]
          /\ (x.price # None /\ o.side = "sell") =>
               /\ committed <=> b[base] >= q
               /\ committed =>
                    balances = [b EXCEPT ![quote] = @ + ProceedsOf(o.qty, Val(x.price)),
                                         ![base] = @ - q]
          /\ ~committed => balances = b

\* C4 witness: a buy with a fee committed with the quote balance exactly
\* equal to its cost, leaving that balance at zero.
C4_Witness ==
    /\ last_exec.called
    /\ last_exec.executed
    /\ last_exec.order.side = "buy"
    /\ last_exec.order.qty > 0
    /\ fee > 0
    /\ last_exec.before.balances[Quote(last_exec.order.pair)]
         = CostOf(last_exec.order.qty, Val(last_exec.price))
    /\ balances[Quote(last_exec.order.pair)] = 0
    /\ balances[Base(last_exec.order.pair)]
         = last_exec.before.balances[Base(last_exec.order.pair)] + last_exec.order.qty * FeeDen

\* C5: an order whose side is neither "buy" nor "sell" aborts the run and
\* never produces a ledger row.
C5_UnsupportedSideAborts ==
    [][(ExecStep /\ CurOrder.side \notin {"buy", "sell"})
        => /\ pc' = "aborted"
           /\ err' # NoErr
           /\ result' = result]_vars

\* C6: an order with qty <= 0 aborts the run and is never committed: it
\* changes neither balances nor turnover nor total_fees_paid.
C6_NonPositiveQtyAborts ==
    [][(ExecStep /\ CurOrder.qty <= 0)
        => /\ pc' = "aborted"
           /\ err' # NoErr
           /\ UNCHANGED <<balances, turnover, total_fees_paid, trade_count>>]_vars

\* C7: execute on any pair symbol with no recorded price is a silent no-op
\* (no error; balances, turnover, total_fees_paid and trade_count unchanged),
\* and update_market accepts any pair symbol and records its close.
C7_UnpricedPairIsNoOp ==
    [][/\ (ExecStep /\ ~Priced(CurOrder.pair))
          => /\ err' = NoErr
             /\ pc' # "aborted"
             /\ UNCHANGED <<balances, turnover, total_fees_paid, trade_count>>
       /\ (pc = "ticks")
          => /\ err' = NoErr
             /\ pc' # "aborted"
             /\ prices'[data[ri].symbol] = Some(data[ri].close)]_vars

\* C8: a committed buy of qty on BASE/fiat followed, with no commit in
\* between, by a committed sell of the same qty on the same pair at the same
\* price p: the BASE balance is back at its value before the buy, the fiat
\* balance has changed by -2*fee*qty*p and total_fees_paid has grown by
\* 2*fee*qty*p.
C8_RoundTrip ==
    (/\ last_commit.side = "sell"
     /\ prev_commit.side = "buy"
     /\ Quote(last_commit.pair) = "fiat"
     /\ prev_commit.pair = last_commit.pair
     /\ prev_commit.qty = last_commit.qty
     /\ prev_commit.price = last_commit.price)
    => LET base == Base(last_commit.pair)
           loss == 2 * fee * last_commit.qty * last_commit.price
       IN  /\ balances[base] = prev_commit.balances[base]
           /\ balances["fiat"] = prev_commit.balances["fiat"] - loss
           /\ total_fees_paid = prev_commit.total_fees_paid + loss

\* C8 witness: a buy and then a sell of the same positive quantity of the
\* same fiat-quoted pair both committed at the same price with a fee, and
\* the fiat balance is down by 2*fee*qty*p.
C8_Witness ==
    /\ last_commit.side = "sell"
    /\ prev_commit.side = "buy"
    /\ Quote(last_commit.pair) = "fiat"
    /\ prev_commit.pair = last_commit.pair
    /\ prev_commit.qty = last_commit.qty
    /\ prev_commit.price = last_commit.price
    /\ last_commit.qty > 0
    /\ fee > 0
    /\ trade_count = 2
    /\ balances["fiat"] < initial_balances["fiat"]

\* C9: turnover never decreases; it grows by qty*price*(1+fee) on a
\* committed buy and by qty*price on a committed sell, so it increases on
\* every committed order; every other step leaves it unchanged.
C9_TurnoverMonotone ==
    [][/\ turnover' >= turnover
       /\ CommitStep =>
            /\ turnover' > turnover
            /\ CurOrder.side = "buy"
                 => turnover' = turnover + CostOf(CurOrder.qty, CurPrice)
            /\ CurOrder.side = "sell"
                 => turnover' = turnover + CurOrder.qty * FeeDen * CurPrice
       /\ ~CommitStep => turnover' = turnover]_vars

\* The value of holdings ib at last prices prc, written out: fiat, plus
\* token_1 at its fiat price, plus token_2 at its fiat price or else through
\* token_1, as a fraction num/den.
ValueAt(ib, prc) ==
    LET p1 == prc["token_1/fiat"]
        p2 == prc["token_2/fiat"]
        p12 == prc["token_1/token_2"]
        direct == ib["fiat"] + (IF p1 = None THEN 0 ELSE ib["token_1"] * p1[1])
    IN  IF p2 # None THEN [num |-> direct + ib["token_2"] * p2[1], den |-> 1]
        ELSE IF p1 # None /\ p12 # None
             THEN [num |-> direct * p12[1] + ib["token_2"] * p1[1], den |-> p12[1]]
        ELSE [num |-> direct, den |-> 1]

\* The value of holdings ib at the first close of each fiat pair of table t.
SeedValue(ib, t) ==
    LET First(s) == t[CHOOSE i \in DOMAIN t :
                        t[i].symbol = s /\ \A j \in 1..(i - 1) : t[j].symbol # s].close
        Has(s) == \E i \in DOMAIN t : t[i].symbol = s
    IN  ib["fiat"]
        + (IF Has("token_1/fiat") THEN ib["token_1"] * First("token_1/fiat") ELSE 0)
        + (IF Has("token_2/fiat") THEN ib["token_2"] * First("token_2/fiat") ELSE 0)

RowsAt(t, ts) == {i \in DOMAIN t : t[i].timestamp = ts}
CallsOf(op) == {k \in DOMAIN log : log[k].op = op}

\* The snapshot of timestamp ts: the fee, and for every pair ticking at ts
\* its tick at ts (the last replayed one, should the table repeat a pair
\* within one timestamp).
IsSnapshotOf(md, ts) ==
    /\ DOMAIN md = {"fee"} \cup {data[i].symbol : i \in RowsAt(data, ts)}
    /\ md["fee"] = fee
    /\ \A i \in RowsAt(data, ts) :
         (\A j \in RowsAt(data, ts) : j > i => data[j].symbol # data[i].symbol)
             => md[data[i].symbol] = data[i]

\* C11: when on_data is called for timestamp t, update_market has been
\* applied to every tick of t, once each, and to none afterwards; every
\* order that call returned is executed before any call for a later
\* timestamp; and the snapshot about to be handed to on_data holds the fee
\* and exactly the ticks of t.
C11_ReplayOrder ==
    /\ \A k \in CallsOf("on_data") :
         LET t == log[k].ts
             ups == {j \in CallsOf("update_market") : log[j].ts = t}
         IN  /\ \A j \in ups : j < k
             /\ {log[j].n : j \in ups} = RowsAt(data, t)
             /\ Cardinality(ups) = Cardinality(RowsAt(data, t))
             /\ \A j \in DOMAIN log :
                  (j > k /\ log[j].ts > t) =>
                      Cardinality({e \in CallsOf("execute") :
                                      log[e].ts = t /\ k < e /\ e < j}) = log[k].n
    /\ pc = "strategy" => IsSnapshotOf(market_data, timestamp)

\* C11 witness: two pairs ticked at one timestamp, both were replayed before
\* on_data was called with a snapshot of both, and the order it returned was
\* executed at once.
C11_Witness ==
    /\ pc = "done"
    /\ Len(log) = 5
    /\ log[2].op = "update_market" /\ log[3].op = "update_market"
    /\ log[4] = Call("on_data", 1, 1)
    /\ log[5] = Call("execute", 1, 0)
    /\ data[1].symbol # data[2].symbol
    /\ DOMAIN market_data = {"fee", data[1].symbol, data[2].symbol}

\* C12: the on_data calls made so far are stamped with strictly increasing
\* timestamps, each a timestamp of the table, none skipped; once the run
\* has ended there is exactly one call per distinct timestamp.
C12_OnDataOncePerTimestamp ==
    /\ \A j, k \in CallsOf("on_data") : j < k => log[j].ts < log[k].ts
    /\ \A k \in CallsOf("on_data") :
         /\ log[k].ts \in GroupKeys(data)
         /\ \A ts \in GroupKeys(data) :
              ts < log[k].ts => \E j \in CallsOf("on_data") : log[j].ts = ts
    /\ pc = "done" =>
         /\ {log[k].ts : k \in CallsOf("on_data")} = GroupKeys(data)
         /\ Cardinality(CallsOf("on_data")) = Cardinality(GroupKeys(data))

\* C12 witness: the rows came out of order; on_data was called for the
\* earlier timestamp, its one order was dropped, and it was called again
\* for the later timestamp, where it returned nothing.
C12_Witness ==
    /\ pc = "done"
    /\ Len(log) = 6
    /\ log[1] = Call("sort_values", 0, 1)
    /\ log[3] = Call("on_data", 1, 1)
    /\ log[4] = Call("execute", 1, 0)
    /\ log[6] = Call("on_data", 2, 0)
    /\ trade_count = 0
    /\ balances = initial_balances

\* C13: the equity curve holds one point per distinct timestamp replayed:
\* the points update_market has appended (all but the seed point) are as
\* many as the on_data calls made, once each group is complete.
C13_OnePointPerTimestamp ==
    (equity_is_list /\ pc \in {"strategy", "orders", "done"}) =>
        Len(equity_history) - 1 = Cardinality(CallsOf("on_data"))
                                    + (IF pc = "strategy" THEN 1 ELSE 0)

\* The last call made was update_market, which has appended its sample.
JustSampled == log # <<>> /\ log[Len(log)].op = "update_market"
LastSample == equity_history[Len(equity_history)]

\* The value of the assets whose own asset/fiat price is known.
DirectValue(bal, prc) ==
    bal["fiat"]
    + (IF prc["token_1/fiat"] # None THEN bal["token_1"] * Val(prc["token_1/fiat"]) ELSE 0)
    + (IF prc["token_2/fiat"] # None THEN bal["token_2"] * Val(prc["token_2/fiat"]) ELSE 0)

\* token_2 has no fiat price of its own but can be valued through token_1.
Token2ViaToken1(prc) ==
    /\ prc["token_2/fiat"] = None
    /\ prc["token_1/fiat"] # None
    /\ prc["token_1/token_2"] # None

\* C14 as stated: every sample update_market takes is balances[fiat] plus,
\* for each asset whose own asset/fiat price is known, its balance times
\* that price, and nothing else.
C14_SampleIsDirectValue ==
    JustSampled => LastSample.num = DirectValue(balances, prices) * LastSample.den

\* C14 amended: every sample update_market takes is that direct value plus,
\* when token_2/fiat is unknown while token_1/fiat and token_1/token_2 are
\* known, balances[token_2] / price(token_1/token_2) * price(token_1/fiat).
C14_SampleIsValue ==
    JustSampled =>
        IF Token2ViaToken1(prices)
        THEN LastSample.num * Val(prices["token_1/token_2"])
               = LastSample.den
                   * (DirectValue(balances, prices) * Val(prices["token_1/token_2"])
                      + balances["token_2"] * Val(prices["token_1/fiat"]))
        ELSE LastSample.num = DirectValue(balances, prices) * LastSample.den

\* C14 witness: a buy of token_1 was committed and a later tick moved its
\* price, so the sample is fiat plus the token_1 bought at the new price.
C14_Witness ==
    /\ JustSampled
    /\ trade_count = 1
    /\ last_commit.side = "buy" /\ last_commit.pair = "token_1/fiat"
    /\ last_commit.qty = 1
    /\ Val(prices["token_1/fiat"]) # last_commit.price
    /\ balances["token_1"] = initial_balances["token_1"] + FeeDen
    /\ LastSample.den = 1
    /\ LastSample.num = balances["fiat"] + balances["token_1"] * Val(prices["token_1/fiat"])
                          + (IF prices["token_2/fiat"] # None
                             THEN balances["token_2"] * Val(prices["token_2/fiat"]) ELSE 0)

\* token_1 has no fiat price of its own but can be valued through token_2.
Token1ViaToken2(prc) ==
    /\ prc["token_1/fiat"] = None
    /\ prc["token_2/fiat"] # None
    /\ prc["token_1/token_2"] # None

\* C15: every sample update_market takes values each asset by its own fiat
\* price, else through the other asset and the token_1/token_2 price, for
\* token_1 as for token_2, and at zero only when neither route is known.
C15_SymmetricResolution ==
    JustSampled =>
        IF Token2ViaToken1(prices)
        THEN LastSample.num * Val(prices["token_1/token_2"])
               = LastSample.den
                   * (DirectValue(balances, prices) * Val(prices["token_1/token_2"])
                      + balances["token_2"] * Val(prices["token_1/fiat"]))
        ELSE IF Token1ViaToken2(prices)
        THEN LastSample.num
               = LastSample.den
                   * (DirectValue(balances, prices)
                      + balances["token_1"] * Val(prices["token_1/token_2"])
                          * Val(prices["token_2/fiat"]))
        ELSE LastSample.num = DirectValue(balances, prices) * LastSample.den

\* The run was aborted by a pair the Trader does not list (the KeyError of
\* update_market or of execute).
AbortedByUnlistedPair ==
    \/ HasKey(prices, OtherPair)
    \/ last_exec.called /\ last_exec.err # NoErr /\ last_exec.order.pair = OtherPair

\* C16: an asset missing from the balances counts as zero: the run is never
\* aborted for it (not when the initial value is computed, not when the
\* portfolio is valued, not when an order is executed), and a funded buy of
\* a missing base asset commits and leaves balances[base] = qty.
C16_AbsentAssetIsZero ==
    /\ pc = "aborted" => AbortedByUnlistedPair
    /\ LET x == last_exec
       IN  (/\ x.called
            /\ x.order.side = "buy"
            /\ x.order.qty > 0
            /\ x.order.pair \in TraderPairs
            /\ x.price # None
            /\ HasKey(x.before.balances, Quote(x.order.pair))
            /\ x.before.balances[Quote(x.order.pair)]
                  >= CostOf(x.order.qty, Val(x.price))
            /\ ~HasKey(x.before.balances, Base(x.order.pair)))
           => /\ x.executed
              /\ HasKey(balances, Base(x.order.pair))
              /\ balances[Base(x.order.pair)] = OrderQty(x.order)

\* C17: the balances belong to the ledger alone: a call of on_data leaves
\* the balances the ledger uses as they were, whatever the strategy does
\* with its argument, and when run_backtest returns the mapping its caller
\* passed is as it was passed.
C17_LedgerOwnsBalances ==
    [][/\ pc = "strategy" => balances' = balances
       /\ pc' = "done" => balances' = initial_balances]_vars

\* C18: run_backtest on a table with no rows fails: once it has started it
\* is aborted by an error, and it never returns a ledger.
C18_EmptyTableFails ==
    (data = <<>> /\ pc # "start") => (pc = "aborted" /\ err # NoErr)

\* The equity curve the scorer walked, and whether its returns series (the
\* changes from one point to the next, undefined 0/0 entries dropped) is
\* empty.
ScoredEquity == [i \in DOMAIN score.equity_ts |-> score.equity_ts[i].equity]
ReturnsEmpty ==
    \A i \in DOMAIN ScoredEquity :
        i > 1 => (ScoredEquity[i - 1] = 0 /\ ScoredEquity[i] = 0)

\* C19: calculate_score raises and returns no report whenever the price
\* series has a single distinct timestamp or the returns series is empty
\* (it is the ValueError of the annualization check once the walk is
\* through); with two or more distinct timestamps and a non-empty returns
\* series it returns a report holding all eleven metrics.
C19_AnnualizationGuard ==
    score.called =>
        /\ Cardinality(GroupKeys(data)) = 1 =>
              (score.err # NoErr /\ score.report = EmptyDict)
        /\ (score.walked /\ (Cardinality(GroupKeys(data)) = 1 \/ ReturnsEmpty)) =>
              (score.err = ValueError /\ score.report = EmptyDict)
        /\ (score.walked /\ Cardinality(GroupKeys(data)) >= 2 /\ ~ReturnsEmpty) =>
              (score.err = NoErr /\ DOMAIN score.report = Metrics)

\* C19 witness: a two-timestamp run was scored, the equity moved from the
\* first timestamp to the second, and the report came back with its eleven
\* metrics.
C19_Witness ==
    /\ score.called
    /\ score.err = NoErr
    /\ Cardinality(GroupKeys(data)) = 2
    /\ Len(ScoredEquity) = 2
    /\ ScoredEquity[1] # ScoredEquity[2]
    /\ Cardinality(DOMAIN score.report) = 11
    /\ score.report["final_equity"] = ScoredEquity[2]

\* Every row of the ledger is a committed buy or sell of a positive quantity.
AllRowsCommitted ==
    /\ trade_count = Len(result)
    /\ \A i \in DOMAIN result : result[i].qty > 0 /\ result[i].side \in {"buy", "sell"}

\* C20: when the ledger of committed trades is replayed by the scorer at
\* the same prices and fee rate, the report's turnover and fees_paid are the
\* Trader's turnover and total_fees_paid.
C20_SameTurnoverAndFees ==
    (score.called /\ score.err = NoErr /\ AllRowsCommitted) =>
        /\ score.report["turnover"] = turnover
        /\ score.report["fees_paid"] = total_fees_paid

\* C21: when every point of the scored equity curve is non-negative and the
\* first is positive, the reported max_drawdown lies between -1 and 0, and
\* it is 0 exactly when no point is below an earlier one.
C21_DrawdownBound ==
    (/\ score.called
     /\ score.err = NoErr
     /\ ScoredEquity[1] > 0
     /\ \A i \in DOMAIN ScoredEquity : ScoredEquity[i] >= 0)
    => LET md == score.report["max_drawdown"]
       IN  /\ md[2] > 0
           /\ md[1] <= 0
           /\ -md[1] <= md[2]
           /\ md[1] = 0 <=>
                 \A i, j \in DOMAIN ScoredEquity :
                     j < i => ScoredEquity[i] >= ScoredEquity[j]

\* C21 witness: the scored curve is positive throughout and its second point
\* is below the first; the reported drawdown is strictly between -1 and 0.
C21_Witness ==
    /\ score.called
    /\ score.err = NoErr
    /\ ScoredEquity[1] > 0
    /\ ScoredEquity[2] > 0
    /\ ScoredEquity[2] < ScoredEquity[1]
    /\ score.report["max_drawdown"] = <<ScoredEquity[2] - ScoredEquity[1], ScoredEquity[1]>>

\* The last call made, and the calls of one kind stamped ts.
LastCall == log[Len(log)]
CallsAt(op, ts) == {k \in CallsOf(op) : log[k].ts = ts}

\* The last execute call returned without committing its order.
LastOrderDropped ==
    /\ log # <<>> /\ LastCall.op = "execute"
    /\ last_exec.called /\ last_exec.err = NoErr /\ ~last_exec.executed

\* C22: a dropped order (unfunded or unpriced) stops nothing.  The run is
\* never aborted; right after a drop the run stands at the next order of the
\* same on_data result, or else at the first tick of the next timestamp, or
\* else it has ended because the table is exhausted; and a run that has
\* ended has, for every timestamp of the table, replayed every tick, called
\* on_data once and executed every order it returned.
C22_DropNeverBlocks ==
    /\ pc # "aborted"
    /\ LastOrderDropped =>
         IF LastCall.n > 0
         THEN pc = "orders" /\ Len(orders) = LastCall.n
         ELSE IF NextKey(data, LastCall.ts) # 0
         THEN /\ pc = "ticks"
              /\ timestamp = NextKey(data, LastCall.ts)
              /\ data[ri].timestamp = timestamp
         ELSE pc = "done"
    /\ pc = "done" =>
         \A ts \in GroupKeys(data) :
             /\ Cardinality(CallsAt("update_market", ts)) = Cardinality(RowsAt(data, ts))
             /\ Cardinality(CallsAt("on_data", ts)) = 1
             /\ \A k \in CallsAt("on_data", ts) :
                  Cardinality(CallsAt("execute", ts)) = log[k].n

\* C22 witness: the first order of the first on_data result was on a pair
\* with no price and was dropped; the order after it and both orders of the
\* next timestamp were executed and committed, and the run has ended.
C22_Witness ==
    /\ pc = "done"
    /\ Cardinality(GroupKeys(data)) = 2
    /\ Len(result) = 4
    /\ result[1].pair = "token_2/fiat"
    /\ result[3].timestamp = 2
    /\ trade_count = 3

\* The ledger is, row by row, the orders on_data has returned so far, in the
\* order returned, each with the timestamp of the call that returned it;
\* timestamps do not decrease down the ledger.
LedgerFollowsReplay ==
    /\ Len(result) <= Len(returned)
    /\ \A i \in DOMAIN result :
         /\ result[i].timestamp = returned[i].ts
         /\ result[i].pair = returned[i].order.pair
         /\ result[i].side = returned[i].order.side
         /\ result[i].qty = returned[i].order.qty
    /\ \A i, j \in DOMAIN result : i < j => result[i].timestamp <= result[j].timestamp

\* C30: after every step the ledger follows the replay (each row carries the
\* timestamp of the on_data call that returned its order, timestamps do not
\* decrease, rows of one timestamp keep the order the strategy gave them),
\* and the step changed or removed no row that was already there.
C30_LedgerOrder ==
    [][/\ LedgerFollowsReplay'
       /\ Len(result') >= Len(result)
       /\ \A i \in DOMAIN result : result'[i] = result[i]]_vars

\* C30 witness: two different orders returned for timestamp 1 and two for
\* timestamp 2 stand in the ledger in that order.
C30_Witness ==
    /\ pc = "done"
    /\ Len(result) = 4
    /\ result[1].timestamp = 1 /\ result[2].timestamp = 1
    /\ result[3].timestamp = 2 /\ result[4].timestamp = 2
    /\ result[1].side # result[2].side
    /\ result[3].pair # result[4].pair
    /\ \A i \in 1..4 : result[i].pair = returned[i].order.pair
                          /\ result[i].side = returned[i].order.side

\* The scorer has replayed a ledger of one trade, and only that trade.
ReplayedOneTrade ==
    /\ score.walked
    /\ Len(result) = 1
    /\ Len(score.applied) = 1

\* C23: the replay of one trade on BASE/QUOTE leaves every balance other
\* than BASE and QUOTE as it was before the walk.
C23_OnlyOwnLegs ==
    ReplayedOneTrade =>
        \A a \in DOMAIN score.balances \ {Base(result[1].pair), Quote(result[1].pair)} :
            score.balances[a] = initial_balances[a]

\* The number of rows of t stamped ts or earlier.
RowsUpTo(t, ts) == Cardinality({i \in DOMAIN t : t[i].timestamp <= ts})

\* Trader.calculate_portfolio_value of the initial balances at the prices
\* observed up to ts.
TraderValueAt(ts) ==
    CalculatePortfolioValue(initial_balances, price_hist[RowsUpTo(data, ts)])

\* C24: with no trade to replay, the equity the scorer computes at each
\* price timestamp is the Trader's portfolio value of the same balances at
\* the prices observed up to that timestamp.
C24_SameValuation ==
    (score.walked /\ result = <<>>) =>
        \A i \in DOMAIN score.equity_ts :
            LET point == score.equity_ts[i]
                pv == TraderValueAt(point.timestamp)
            IN  pv.err = NoErr /\ pv.num = point.equity * pv.den

\* C25: a ledger of committed trades returned by run_backtest is replayed
\* by the scorer without error.
C25_LedgerCanBeScored ==
    (score.called /\ AllRowsCommitted /\ result # <<>>) => score.walked

\* C29: after the walk over a ledger of committed trades the scorer holds
\* the Trader's final balances, none of them negative.
C29_ReplayReproducesBalances ==
    (score.walked /\ AllRowsCommitted) =>
        /\ score.balances = balances
        /\ \A a \in DOMAIN score.balances : score.balances[a] >= 0

\* C27: after every step trade_count is the number of execute calls that
\* changed balances; balances change only in an execute call that commits;
\* and a step of update_market changes none of balances, turnover,
\* total_fees_paid and trade_count.
C27_CommitsOnlyMutate ==
    [][/\ trade_count' = commits'
       /\ balances' # balances => CommitStep
       /\ pc = "ticks" => UNCHANGED <<balances, turnover, total_fees_paid,
                                      trade_count>>]_vars

\* C28: every update_market call on a pair the Trader lists succeeds and
\* appends exactly one point to the equity history, leaving the points
\* already recorded as they were.
C28_AppendOnlyFromConstruction ==
    [][(pc = "ticks" /\ data[ri].symbol \in TraderPairs) =>
         /\ pc' # "aborted"
         /\ Len(equity_history') = Len(equity_history) + 1
         /\ \A i \in DOMAIN equity_history : equity_history'[i] = equity_history[i]]_vars

\* The distinct timestamps of the price table.
PriceTimes == {data[i].timestamp : i \in DOMAIN data}

\* The ids of the ledger rows stamped with a price timestamp up to ts.
DueBy(ts) ==
    {result[i].id : i \in {j \in DOMAIN result :
                              result[j].timestamp \in PriceTimes
                              /\ result[j].timestamp <= ts}}

\* How many times the row with this id was applied.
TimesApplied(id) == Cardinality({k \in DOMAIN score.applied : score.applied[k] = id})

\* C26: after a walk that completed, the equity points are one per distinct
\* price timestamp, in ascending order; every trade stamped with a price
\* timestamp was applied exactly once and every other trade never; and the
\* trades applied before the equity point of a timestamp are exactly the
\* trades stamped with a price timestamp up to that one.
C26_WalkOrder ==
    score.walked =>
        /\ Len(score.equity_ts) = Cardinality(PriceTimes)
        /\ \A k \in DOMAIN score.equity_ts : score.equity_ts[k].timestamp \in PriceTimes
        /\ \A k, m \in DOMAIN score.equity_ts :
             k < m => score.equity_ts[k].timestamp < score.equity_ts[m].timestamp
        /\ \A i \in DOMAIN result :
             TimesApplied(result[i].id) =
                 IF result[i].timestamp \in PriceTimes THEN 1 ELSE 0
        /\ \A k \in DOMAIN score.equity_ts :
             LET point == score.equity_ts[k]
             IN  /\ point.applied = Cardinality(DueBy(point.timestamp))
                 /\ {score.applied[j] : j \in 1..point.applied} = DueBy(point.timestamp)

\* C26 witness: a table of two timestamps walked with a ledger of one trade
\* stamped with the second of them and one trade stamped later than both;
\* the first was applied, between the two equity points, and the second was
\* not.
C26_Witness ==
    /\ score.walked
    /\ PriceTimes = {1, 2}
    /\ Len(result) = 2
    /\ result[1].timestamp = 3
    /\ result[2].timestamp = 2
    /\ score.applied = <<2>>
    /\ score.equity_ts[1].applied = 0
    /\ score.equity_ts[2].applied = 1

\* The sign of an amount.
Sign(x) == IF x > 0 THEN 1 ELSE IF x < 0 THEN -1 ELSE 0

\* The sign of total_return ** (1 / years) - 1 for years > 0 and a
\* total_return with a positive denominator and a non-negative numerator:
\* the sign of total_return - 1.
AnnualizedReturnSign ==
    LET tr == score.report["annualized_return"].total_return
    IN  Sign(tr[1] - tr[2])

\* C31: in every report the initial_equity is the first point of the equity
\* curve, and, the curve starting positive and ending non-negative, abs_pnl
\* and annualized_return have the same sign.
C31_OneInitialEquity ==
    (score.called /\ score.err = NoErr) =>
        /\ score.report["initial_equity"] = ScoredEquity[1]
        /\ (ScoredEquity[1] > 0 /\ ScoredEquity[Len(ScoredEquity)] >= 0) =>
              Sign(score.report["abs_pnl"]) = AnnualizedReturnSign
====
